---- MODULE Spec2Model ----
(***************************************************************************)
(* Model of the KOSPI investor-flow pipeline:                              *)
(*   scripts/update_latest_data.py  one load -> fetch -> reconcile -> save *)
(*                                  run of main(), repeated on the same    *)
(*                                  dataset file (specification Spec);     *)
(*   app.py fetch_naver_data        the concurrent per-date trend fetches  *)
(*                                  (specification SpecApp).               *)
(*                                                                         *)
(* Representation.                                                         *)
(*   - An ISO date string "YYYY-MM-DD" is the integer YYYYMMDD: the order  *)
(*     of fixed-width ISO strings is the order of these integers.          *)
(*   - A close price is an integer number of thousandths (2500.123 is      *)
(*     2500123), so that round(x, 2) is a real operation.                  *)
(*   - Python's None is the empty tuple, a present value x is <<x>>.       *)
(*   - A dict is a function; the empty dict is the function with the empty *)
(*     domain.                                                             *)
(***************************************************************************)
EXTENDS Integers, Sequences, FiniteSets, TLC

VARIABLES
    \* ---- scripts/update_latest_data.py ----
    file,                    \* the dataset file public/latest-trading-data.json
    pc,                      \* position of main()
    error,                   \* the exception main() ended with, "none" if none
    existing_map,            \* main(): locals, as named in the source
    earliest_existing,
    missing_kospi,
    earliest_kospi_existing,
    needs_backfill,
    max_pages,
    needs_kospi_backfill,
    max_pages_kospi,
    fetched_map,
    kospi_map,
    rows,
    \* history of the current run
    file_before,             \* the file as it was when the run started
    assigned,                \* rows as they were after the close assignment
    failed_page,             \* number of the page whose request failed, 0 if none
    budget_hit,              \* the series whose page loop used up its page budget
    \* ---- app.py fetch_naver_data ----
    app_pc,
    biz_dates,
    future,
    trend_data

pipeline_vars == <<file, pc, error, existing_map, earliest_existing, missing_kospi,
                   earliest_kospi_existing, needs_backfill, max_pages,
                   needs_kospi_backfill, max_pages_kospi, fetched_map, kospi_map,
                   rows, file_before, assigned, failed_page, budget_hit>>
app_vars == <<app_pc, biz_dates, future, trend_data>>
vars == <<pipeline_vars, app_vars>>

----------------------------------------------------------------------------
(* Python values *)

None == <<>>
Some(x) == <<x>>
EmptyDict == <<>>

\* {**a, **b}: the keys of both, b's value where both have the key.
DictUnion(a, b) == b @@ a

\* d[k] = v on a dict.
DictSet(d, k, v) == (k :> v) @@ d

\* row.get(k, default)
Get(row, k, default) == IF k \in DOMAIN row THEN row[k] ELSE default

\* min(keys)
MinOf(S) == CHOOSE x \in S : \A y \in S : x <= y

\* sorted(keys): ascending, each key once
RECURSIVE sorted(_)
sorted(S) == IF S = {} THEN <<>> ELSE <<MinOf(S)>> \o sorted(S \ {MinOf(S)})

\* round(x, 2) of a float held in thousandths: to the nearest hundredth, a tie
\* to the even hundredth.
round2(x) ==
    LET q == x \div 10
        r == x % 10
    IN  IF r < 5 THEN q * 10
        ELSE IF r > 5 THEN (q + 1) * 10
        ELSE IF q % 2 = 0 THEN q * 10 ELSE (q + 1) * 10

----------------------------------------------------------------------------
(* Program constants *)

HISTORICAL_START_DATE == 20050103
BOOTSTRAP_MAX_PAGES == 700
RECENT_REFRESH_PAGES == 20

FlowFields == <<"individual", "foreign", "institution", "financialInvestment",
                "insurance", "investmentTrust", "bank", "otherFinancial",
                "pension", "otherCorporation">>
FlowFieldSet == {FlowFields[i] : i \in 1..Len(FlowFields)}

----------------------------------------------------------------------------
(* datetime.strptime(s, "%Y-%m-%d").date() and date subtraction *)

IsLeap(y) == (y % 4 = 0) /\ ((y % 100 # 0) \/ (y % 400 = 0))

DaysInMonth(y, m) ==
    IF m = 2 THEN (IF IsLeap(y) THEN 29 ELSE 28)
    ELSE IF m \in {4, 6, 9, 11} THEN 30 ELSE 31

RECURSIVE DaysBeforeMonth(_, _)
DaysBeforeMonth(y, m) ==
    IF m = 1 THEN 0 ELSE DaysBeforeMonth(y, m - 1) + DaysInMonth(y, m - 1)

DaysBeforeYear(y) ==
    LET p == y - 1 IN p * 365 + (p \div 4) - (p \div 100) + (p \div 400)

\* date.toordinal() of the date written YYYYMMDD
ToOrdinal(d) ==
    LET y == d \div 10000
        m == (d \div 100) % 100
        dd == d % 100
    IN  DaysBeforeYear(y) + DaysBeforeMonth(y, m) + dd

\* (a - b).days
DaysBetween(a, b) == ToOrdinal(a) - ToOrdinal(b)

----------------------------------------------------------------------------
(* The dataset file: a JSON document, or text that is not JSON, or no file *)

JNull == [t |-> "null"]
JNum(n) == [t |-> "num", n |-> n]
JStr(d) == [t |-> "str", d |-> d]      \* a string holding a date
JText == [t |-> "text"]                \* a string that is no number and no date
JList(l) == [t |-> "list", l |-> l]
JObj(o) == [t |-> "obj", o |-> o]

NoFile == [exists |-> FALSE]
TextFile == [exists |-> TRUE, json |-> FALSE]
JsonFile(v) == [exists |-> TRUE, json |-> TRUE, doc |-> v]

\* json.dumps of an Optional[float]
DumpClose(c) == IF c = None THEN JNull ELSE JNum(c[1])

\* json.dumps of one row dict of main()
DumpRow(row) ==
    JObj([k \in DOMAIN row |->
            IF k = "date" THEN JStr(row[k])
            ELSE IF k = "kospiClose" THEN DumpClose(row[k])
            ELSE JNum(row[k])])

DumpRows(rs) == [i \in 1..Len(rs) |-> DumpRow(rs[i])]

----------------------------------------------------------------------------
(* load_existing_data *)

\* What load_existing_data returns, or that it raised.
LoadResult(raised, row_map, earliest, missing, earliest_kospi) ==
    [raised |-> raised, row_map |-> row_map, earliest |-> earliest,
     missing_kospi |-> missing, earliest_kospi_existing |-> earliest_kospi]

\* return {}, None, True, None
LoadEmpty == LoadResult(FALSE, EmptyDict, None, TRUE, None)
\* an exception leaves load_existing_data
LoadRaised == LoadResult(TRUE, EmptyDict, None, TRUE, None)

\* parse_float(str(kospi_close_raw)) if kospi_close_raw is not None else None:
\* the text of a number parses, any other text does not.
load_close(raw) == IF raw.t = "num" THEN Some(raw.n) ELSE None

\* int(row.get(field, 0)) raises for a value that is not a number.
load_flow_raises(o) ==
    \E k \in FlowFieldSet : Get(o, k, JNum(0)).t # "num"

\* The dict built for one row of the file.
load_row_dict(o, date, kospi_close) ==
    [date |-> date,
     individual |-> Get(o, "individual", JNum(0)).n,
     foreign |-> Get(o, "foreign", JNum(0)).n,
     institution |-> Get(o, "institution", JNum(0)).n,
     financialInvestment |-> Get(o, "financialInvestment", JNum(0)).n,
     insurance |-> Get(o, "insurance", JNum(0)).n,
     investmentTrust |-> Get(o, "investmentTrust", JNum(0)).n,
     bank |-> Get(o, "bank", JNum(0)).n,
     otherFinancial |-> Get(o, "otherFinancial", JNum(0)).n,
     pension |-> Get(o, "pension", JNum(0)).n,
     otherCorporation |-> Get(o, "otherCorporation", JNum(0)).n,
     kospiClose |-> IF kospi_close # None THEN Some(round2(kospi_close[1])) ELSE None]

\* The loop over the rows of the file, from row i on; acc is the state of the
\* loop's variables.
RECURSIVE load_loop(_, _, _)
load_loop(data, i, acc) ==
    IF i > Len(data) THEN acc
    ELSE LET row == data[i] IN
         IF row.t # "obj" THEN [acc EXCEPT !.raised = TRUE]       \* row.get raises
         ELSE LET o == row.o
                  date == Get(o, "date", JNull)
              IN  IF date.t # "str" THEN load_loop(data, i + 1, acc)
                  ELSE LET kospi_close == load_close(Get(o, "kospiClose", JNull))
                           missing == IF kospi_close = None THEN TRUE
                                      ELSE acc.missing_kospi
                           ek == IF kospi_close # None
                                    /\ (acc.earliest_kospi_existing = None
                                        \/ date.d < acc.earliest_kospi_existing[1])
                                 THEN Some(date.d)
                                 ELSE acc.earliest_kospi_existing
                       IN  IF load_flow_raises(o)
                           THEN [acc EXCEPT !.raised = TRUE]       \* int() raises
                           ELSE load_loop(data, i + 1,
                                    [acc EXCEPT
                                       !.missing_kospi = missing,
                                       !.earliest_kospi_existing = ek,
                                       !.row_map = DictSet(acc.row_map, date.d,
                                                     load_row_dict(o, date.d, kospi_close))])

load_existing_data(f) ==
    IF ~f.exists THEN LoadEmpty
    ELSE IF ~f.json THEN LoadRaised                        \* json.loads raises
    ELSE IF f.doc.t # "obj" THEN LoadRaised                \* payload.get raises
    ELSE LET data == Get(f.doc.o, "data", JList(<<>>)) IN
         IF data.t # "list" THEN LoadEmpty
         ELSE LET r == load_loop(data.l, 1,
                          LoadResult(FALSE, EmptyDict, None, FALSE, None))
              IN  IF r.raised THEN LoadRaised
                  ELSE IF r.row_map = EmptyDict THEN LoadEmpty
                  ELSE [r EXCEPT !.earliest = Some(MinOf(DOMAIN r.row_map))]

----------------------------------------------------------------------------
(* The scraped tables: a page is a list of table rows, a row a list of cell  *)
(* texts.  A cell text is one of                                             *)
(*    "YY.MM.DD"  "YYYY.MM.DD"   a date in one of the two forms,            *)
(*    a number with an optional sign and thousands separators,               *)
(*    the empty text, or any other text (with or without a dot).             *)

DateCell2(yy, mm, dd) == [k |-> "date2", y |-> yy, m |-> mm, d |-> dd]
DateCell4(yyyy, mm, dd) == [k |-> "date4", y |-> yyyy, m |-> mm, d |-> dd]
NumCell(sign, mag) == [k |-> "num", sign |-> sign, mag |-> mag]
EmptyCell == [k |-> "empty"]
JunkCell == [k |-> "junk"]
DottedJunkCell == [k |-> "dotted"]

\* "." in text
HasDot(cell) == cell.k \in {"date2", "date4", "dotted"}

\* The value of a numeric text once "," and "+" are removed.
NumberOf(cell) == IF cell.sign = "-" THEN 0 - cell.mag ELSE cell.mag

parse_number(cell) == IF cell.k = "num" THEN NumberOf(cell) ELSE 0

parse_float(cell) == IF cell.k = "num" THEN Some(NumberOf(cell)) ELSE None

normalize_detail_date(cell) ==
    IF cell.k = "date4" THEN Some(cell.y * 10000 + cell.m * 100 + cell.d)
    ELSE IF cell.k # "date2" THEN None
    ELSE LET year == IF cell.y >= 90 THEN 1900 + cell.y ELSE 2000 + cell.y
         IN  Some(year * 10000 + cell.m * 100 + cell.d)

\* A row of the investor-detail table that parse_detail_rows keeps.
detail_row_kept(cols) ==
    /\ ~(Len(cols) < 11 \/ ~HasDot(cols[1]))
    /\ normalize_detail_date(cols[1]) # None

\* The dict parse_detail_rows builds for a kept row: it has no "kospiClose" key.
detail_row_dict(cols) ==
    [date |-> normalize_detail_date(cols[1])[1],
     individual |-> parse_number(cols[2]),
     foreign |-> parse_number(cols[3]),
     institution |-> parse_number(cols[4]),
     financialInvestment |-> parse_number(cols[5]),
     insurance |-> parse_number(cols[6]),
     investmentTrust |-> parse_number(cols[7]),
     bank |-> parse_number(cols[8]),
     otherFinancial |-> parse_number(cols[9]),
     pension |-> parse_number(cols[10]),
     otherCorporation |-> parse_number(cols[11])]

parse_detail_rows(html) ==
    LET kept == SelectSeq(html, detail_row_kept)
    IN  [i \in 1..Len(kept) |-> detail_row_dict(kept[i])]

\* A row of the index table that parse_kospi_rows keeps.
kospi_row_kept(cols) ==
    /\ ~(Len(cols) < 2 \/ ~HasDot(cols[1]))
    /\ ~(normalize_detail_date(cols[1]) = None \/ parse_float(cols[2]) = None)

\* parse_kospi_rows: (date, round(close, 2)) pairs
parse_kospi_rows(html) ==
    LET kept == SelectSeq(html, kospi_row_kept)
    IN  [i \in 1..Len(kept) |->
            [date |-> normalize_detail_date(kept[i][1])[1],
             close |-> round2(parse_float(kept[i][2])[1])]]

----------------------------------------------------------------------------
(* The upstream server during one fetch: the responses to page 1, 2, ...;    *)
(* a page past the last one has a table with no data rows.                   *)

Response(html) == [ok |-> TRUE, html |-> html]
FailedResponse == [ok |-> FALSE, html |-> <<>>]   \* network error or non-200
BlankResponse == Response(<<>>)

ServerPage(srv, page) == IF page <= Len(srv) THEN srv[page] ELSE BlankResponse

\* What a fetch function does: it raises or returns its map; `ended` says how
\* the page loop ended ("range": the page budget was used up, "raise": the
\* request of page `page` failed, "empty": page `page` had no rows, "old":
\* page `page` ended before min_date).
FetchResult(raised, map, page, ended) ==
    [raised |-> raised, map |-> map, page |-> page, ended |-> ended]

\* for row in rows: if date < min_date: continue; detail_map[date] = row
RECURSIVE store_rows(_, _, _, _)
store_rows(parsed, i, min_date, map) ==
    IF i > Len(parsed) THEN map
    ELSE store_rows(parsed, i + 1, min_date,
            IF parsed[i].date < min_date THEN map
            ELSE DictSet(map, parsed[i].date, parsed[i]))

\* The body of fetch_detail_trend_map's loop for one page: how the loop goes
\* on and detail_map after it.
detail_page(srv, page, min_date, detail_map) ==
    LET response == ServerPage(srv, page) IN
      IF ~response.ok THEN [go |-> "raise", map |-> detail_map]   \* raise_for_status()
      ELSE LET parsed == parse_detail_rows(response.html) IN
           IF parsed = <<>> THEN [go |-> "empty", map |-> detail_map]
           ELSE LET oldest_on_page == parsed[Len(parsed)].date IN
                [go |-> IF oldest_on_page < min_date THEN "old" ELSE "next",
                 map |-> store_rows(parsed, 1, min_date, detail_map)]

\* fetch_detail_trend_map, from page `page` on with detail_map as collected so far.
RECURSIVE detail_loop(_, _, _, _, _)
detail_loop(srv, page, max, min_date, detail_map) ==
    IF page > max THEN FetchResult(FALSE, detail_map, max, "range")
    ELSE LET step == detail_page(srv, page, min_date, detail_map) IN
         IF step.go = "raise" THEN FetchResult(TRUE, EmptyDict, page, "raise")
         ELSE IF step.go = "next"
              THEN detail_loop(srv, page + 1, max, min_date, step.map)
              ELSE FetchResult(FALSE, step.map, page, step.go)

\* Mutant of fetch_detail_trend_map: a failed page ends the loop like an empty
\* page and the rows collected so far are returned.
RECURSIVE detail_loop_recovering(_, _, _, _, _)
detail_loop_recovering(srv, page, max, min_date, detail_map) ==
    IF page > max THEN FetchResult(FALSE, detail_map, max, "range")
    ELSE LET step == detail_page(srv, page, min_date, detail_map) IN
         IF step.go = "next"
         THEN detail_loop_recovering(srv, page + 1, max, min_date, step.map)
         ELSE FetchResult(FALSE, step.map, page, step.go)

fetch_detail_recovering(srv, max, min_date) ==
    detail_loop_recovering(srv, 1, max, min_date, EmptyDict)

fetch_detail_trend_map(srv, max, min_date) ==
    detail_loop(srv, 1, max, min_date, EmptyDict)

\* for date, close in rows: if date < min_date: continue; close_map[date] = close
RECURSIVE store_closes(_, _, _, _)
store_closes(parsed, i, min_date, map) ==
    IF i > Len(parsed) THEN map
    ELSE store_closes(parsed, i + 1, min_date,
            IF parsed[i].date < min_date THEN map
            ELSE DictSet(map, parsed[i].date, parsed[i].close))

\* The body of fetch_kospi_close_map's loop for one page: how the loop goes on
\* and close_map after it.
kospi_page(srv, page, min_date, close_map) ==
    LET response == ServerPage(srv, page) IN
      IF ~response.ok THEN [go |-> "raise", map |-> close_map]    \* raise_for_status()
      ELSE LET parsed == parse_kospi_rows(response.html) IN
           IF parsed = <<>> THEN [go |-> "empty", map |-> close_map]
           ELSE LET oldest_on_page == parsed[Len(parsed)].date IN
                [go |-> IF oldest_on_page < min_date THEN "old" ELSE "next",
                 map |-> store_closes(parsed, 1, min_date, close_map)]

\* fetch_kospi_close_map, from page `page` on with close_map as collected so far.
RECURSIVE kospi_loop(_, _, _, _, _)
kospi_loop(srv, page, max, min_date, close_map) ==
    IF page > max THEN FetchResult(FALSE, close_map, max, "range")
    ELSE LET step == kospi_page(srv, page, min_date, close_map) IN
         IF step.go = "raise" THEN FetchResult(TRUE, EmptyDict, page, "raise")
         ELSE IF step.go = "next"
              THEN kospi_loop(srv, page + 1, max, min_date, step.map)
              ELSE FetchResult(FALSE, step.map, page, step.go)

\* Mutant of fetch_kospi_close_map: a failed page ends the loop like an empty
\* page and the closes collected so far are returned.
RECURSIVE kospi_loop_recovering(_, _, _, _, _)
kospi_loop_recovering(srv, page, max, min_date, close_map) ==
    IF page > max THEN FetchResult(FALSE, close_map, max, "range")
    ELSE LET step == kospi_page(srv, page, min_date, close_map) IN
         IF step.go = "next"
         THEN kospi_loop_recovering(srv, page + 1, max, min_date, step.map)
         ELSE FetchResult(FALSE, step.map, page, step.go)

fetch_kospi_recovering(srv, max, min_date) ==
    kospi_loop_recovering(srv, 1, max, min_date, EmptyDict)

fetch_kospi_close_map(srv, max, min_date) ==
    kospi_loop(srv, 1, max, min_date, EmptyDict)

----------------------------------------------------------------------------
(* main(): the computations between its I/O calls *)

\* Mutant of needs_backfill_of: a week counts as uncovered (>= for >).
needs_backfill_from_a_week(earliest) ==
    IF earliest = None THEN TRUE
    ELSE DaysBetween(earliest[1], HISTORICAL_START_DATE) >= 7

\* needs_backfill: an absent (or empty) earliest date needs the backfill;
\* otherwise the earliest row must be more than a week after the target start.
needs_backfill_of(earliest) ==
    IF earliest = None THEN TRUE
    ELSE DaysBetween(earliest[1], HISTORICAL_START_DATE) > 7

pages_for(needs) == IF needs THEN BOOTSTRAP_MAX_PAGES ELSE RECENT_REFRESH_PAGES

needs_kospi_backfill_of(needs, missing, earliest_kospi) ==
    \/ needs
    \/ missing
    \/ earliest_kospi = None
    \/ earliest_kospi[1] > HISTORICAL_START_DATE

\* Mutant of merged_map_of: the date filter is missing.
merged_map_unfiltered(existing, fetched) == DictUnion(existing, fetched)

\* Mutant of merged_map_of: the dicts are merged the other way round.
merged_map_existing_wins(existing, fetched) ==
    LET all == DictUnion(fetched, existing)
    IN  [d \in {x \in DOMAIN all : x >= HISTORICAL_START_DATE} |-> all[d]]

\* {date: row for date, row in {**existing_map, **fetched_map}.items()
\*  if date >= HISTORICAL_START_DATE}
merged_map_of(existing, fetched) ==
    LET all == DictUnion(existing, fetched)
    IN  [d \in {x \in DOMAIN all : x >= HISTORICAL_START_DATE} |-> all[d]]

\* rows = [merged_map[date] for date in sorted(merged_map.keys())]
rows_of(merged) ==
    LET keys == sorted(DOMAIN merged) IN [i \in 1..Len(keys) |-> merged[keys[i]]]

\* The close one row gets in the assignment loop.
assigned_close(row, closes) ==
    LET earliest_kospi_date == IF closes # EmptyDict THEN Some(MinOf(DOMAIN closes))
                               ELSE None
        date == row.date
        existing_close == Get(row, "kospiClose", None)
    IN  IF earliest_kospi_date # None /\ date < earliest_kospi_date[1]
           /\ date \notin DOMAIN closes
        THEN None
        ELSE IF date \in DOMAIN closes THEN Some(closes[date]) ELSE existing_close

assign_closes(rs, closes) ==
    [i \in 1..Len(rs) |-> DictSet(rs[i], "kospiClose", assigned_close(rs[i], closes))]

\* The forward-fill loop from row i on; last_known as the loop holds it.
RECURSIVE fill_loop(_, _, _)
fill_loop(rs, i, last_known) ==
    IF i > Len(rs) THEN rs
    ELSE LET close == Get(rs[i], "kospiClose", None) IN
         IF close # None THEN fill_loop(rs, i + 1, close)
         ELSE IF last_known # None
              THEN fill_loop([rs EXCEPT ![i] = DictSet(rs[i], "kospiClose",
                                                  Some(round2(last_known[1])))],
                             i + 1, last_known)
              ELSE fill_loop(rs, i + 1, last_known)

\* Mutant of forward_fill: last_known is set once and never updated.
RECURSIVE fill_loop_first_known(_, _, _)
fill_loop_first_known(rs, i, last_known) ==
    IF i > Len(rs) THEN rs
    ELSE LET close == Get(rs[i], "kospiClose", None) IN
         IF close # None
         THEN fill_loop_first_known(rs, i + 1,
                                    IF last_known = None THEN close ELSE last_known)
         ELSE IF last_known # None
              THEN fill_loop_first_known(
                       [rs EXCEPT ![i] = DictSet(rs[i], "kospiClose",
                                                 Some(round2(last_known[1])))],
                       i + 1, last_known)
              ELSE fill_loop_first_known(rs, i + 1, last_known)

forward_fill_first_known(rs) == fill_loop_first_known(rs, 1, None)

forward_fill(rs) == fill_loop(rs, 1, None)

\* The document main() writes (the timestamp updatedAtKst is left out).
payload_of(rs) ==
    JObj([meta |-> JObj([source |-> JText,
                         earliestTradingDate |-> JStr(rs[1].date),
                         latestTradingDate |-> JStr(rs[Len(rs)].date),
                         refreshIntervalHours |-> JNum(24),
                         historicalStartDate |-> JStr(HISTORICAL_START_DATE)]),
          data |-> JList(DumpRows(rs))])

----------------------------------------------------------------------------
(* Inputs: the files a first run may find, and the pages the server may send *)

MaxPages == 2      \* pages the server holds for one series in one run

FieldIndex(k) == CHOOSE i \in 1..Len(FlowFields) : FlowFields[i] = k

\* One row object of a dataset file: flow values v, close as a JSON value.
FileRow(d, v, close) ==
    JObj([k \in {"date", "kospiClose"} \cup FlowFieldSet |->
            IF k = "date" THEN JStr(d)
            ELSE IF k = "kospiClose" THEN close
            ELSE JNum(v[FieldIndex(k)])])

DataFile(rs) == JsonFile(JObj([data |-> JList(rs)]))

OldFlow == <<100, -200, 300, -400, 500, 600, 700, 800, 900, 1000>>

InitialFiles ==
    { NoFile,
      TextFile,                                          \* not valid JSON
      JsonFile(JList(<<>>)),                             \* top level not an object
      JsonFile(JObj([data |-> JNum(1)])),                \* data not a list
      JsonFile(JObj([meta |-> JNull])),                  \* no data key
      DataFile(<<JNum(7)>>),                             \* a row that is not an object
      DataFile(<<JObj([date |-> JStr(20050110), individual |-> JText])>>),
      DataFile(<<JObj([date |-> JNum(20050110)]),        \* a date that is no string
                 JObj([date |-> JStr(20050111)])>>),     \* a row with the date only
      \* rows out of order, one before the start date, an unrounded close
      DataFile(<<FileRow(20050110, OldFlow, JNull),
                 FileRow(20041230, OldFlow, JNum(2400000)),
                 FileRow(20050103, OldFlow, JNum(2500123))>>),
      \* only a row before the start date
      DataFile(<<FileRow(20041230, OldFlow, JNum(2400000))>>),
      \* complete close coverage from the start date on
      DataFile(<<FileRow(20050103, OldFlow, JNum(2500120)),
                 FileRow(20050110, OldFlow, JNum(2500120))>>),
      \* earliest row 7 days after the start date
      DataFile(<<FileRow(20050110, OldFlow, JNum(2500120)),
                 FileRow(20050111, OldFlow, JText)>>),
      \* earliest row 8 days after the start date
      DataFile(<<FileRow(20050111, OldFlow, JNum(2500120))>>) }

\* "+1,234", "-560", "", "abc", ...
NewFlowCells == <<NumCell("+", 1234), NumCell("-", 560), EmptyCell, JunkCell,
                  NumCell("", 5), NumCell("", 6), NumCell("-", 7), NumCell("", 8),
                  NumCell("", 9), NumCell("+", 10)>>

DecorationRow == <<EmptyCell>>

\* The newest rows of each table, as a page of the recent window.
RecentDetailPage ==
    <<DecorationRow,
      <<DateCell2(5, 1, 11)>> \o NewFlowCells,
      <<DateCell2(5, 1, 10)>> \o NewFlowCells>>
RecentKospiPage ==
    <<DecorationRow,
      <<DateCell4(2005, 1, 11), NumCell("", 2612338)>>,
      <<DateCell4(2005, 1, 10), JunkCell>>>>

\* Pages of the investor-detail table, newest row first.
DetailPages ==
    { RecentDetailPage,
      <<<<DateCell4(2005, 1, 3)>> \o NewFlowCells,
        <<DottedJunkCell>> \o NewFlowCells,
        <<DateCell4(2004, 12, 30)>> \o NewFlowCells>>,
      <<<<DateCell2(5, 1, 10)>> \o NewFlowCells,
        <<DateCell2(5, 1, 3)>> \o NewFlowCells,
        DecorationRow>> }

\* Pages of the index table, newest row first.
KospiPages ==
    { RecentKospiPage,
      <<<<DateCell4(2005, 1, 10), NumCell("", 2500120)>>,
        <<DateCell4(2005, 1, 3), NumCell("+", 2500123)>>>>,
      <<<<DateCell2(5, 1, 3), NumCell("", 2612340)>>,
        <<DateCell2(4, 12, 30), NumCell("", 2400000)>>>> }

DetailResponses == {FailedResponse} \cup {Response(h) : h \in DetailPages}
KospiResponses == {FailedResponse} \cup {Response(h) : h \in KospiPages}

SeqsUpTo(S, n) == UNION {[1..k -> S] : k \in 0..n}

\* What the server may hold for a series: up to MaxPages pages, or as many
\* pages of the recent window as an incremental refresh reads, followed by
\* nothing or by one more page.
Servers(recent, responses) ==
    LET short == SeqsUpTo(responses, MaxPages)
        window == [i \in 1..RECENT_REFRESH_PAGES |-> Response(recent)]
    IN  short \cup {window} \cup {Append(window, r) : r \in responses}

DetailServers == Servers(RecentDetailPage, DetailResponses)
KospiServers == Servers(RecentKospiPage, KospiResponses)

----------------------------------------------------------------------------
(* One run of main(), step by step; NextRun is the next scheduled run. *)

Locals(em, ee, mk, eke, nb, mp, nkb, mpk, fm, km, rs) ==
    /\ existing_map' = em
    /\ earliest_existing' = ee
    /\ missing_kospi' = mk
    /\ earliest_kospi_existing' = eke
    /\ needs_backfill' = nb
    /\ max_pages' = mp
    /\ needs_kospi_backfill' = nkb
    /\ max_pages_kospi' = mpk
    /\ fetched_map' = fm
    /\ kospi_map' = km
    /\ rows' = rs

UnsetLocals ==
    Locals(EmptyDict, None, FALSE, None, FALSE, 0, FALSE, 0, EmptyDict, EmptyDict, <<>>)

InitPipeline ==
    /\ file \in InitialFiles
    /\ pc = "start"
    /\ error = "none"
    /\ existing_map = EmptyDict
    /\ earliest_existing = None
    /\ missing_kospi = FALSE
    /\ earliest_kospi_existing = None
    /\ needs_backfill = FALSE
    /\ max_pages = 0
    /\ needs_kospi_backfill = FALSE
    /\ max_pages_kospi = 0
    /\ fetched_map = EmptyDict
    /\ kospi_map = EmptyDict
    /\ rows = <<>>
    /\ file_before = file
    /\ assigned = <<>>
    /\ failed_page = 0
    /\ budget_hit = {}

\* existing_map, ... = load_existing_data(out_path)
Load ==
    /\ pc = "start"
    /\ LET r == load_existing_data(file) IN
         IF r.raised
         THEN /\ pc' = "fatal"
              /\ error' = "load"
              /\ UNCHANGED <<existing_map, earliest_existing, missing_kospi,
                             earliest_kospi_existing>>
         ELSE /\ pc' = "classify"
              /\ error' = "none"
              /\ existing_map' = r.row_map
              /\ earliest_existing' = r.earliest
              /\ missing_kospi' = r.missing_kospi
              /\ earliest_kospi_existing' = r.earliest_kospi_existing
    /\ file_before' = file
    /\ UNCHANGED <<app_vars, file, needs_backfill, max_pages, needs_kospi_backfill,
                   max_pages_kospi, fetched_map, kospi_map, rows, assigned,
                   failed_page, budget_hit>>

\* needs_backfill, max_pages, needs_kospi_backfill, max_pages_kospi
Classify ==
    /\ pc = "classify"
    /\ pc' = "fetch_detail"
    /\ needs_backfill' = needs_backfill_of(earliest_existing)
    /\ max_pages' = pages_for(needs_backfill')
    /\ needs_kospi_backfill' = needs_kospi_backfill_of(needs_backfill', missing_kospi,
                                                       earliest_kospi_existing)
    /\ max_pages_kospi' = pages_for(needs_kospi_backfill')
    /\ UNCHANGED <<app_vars, file, error, existing_map, earliest_existing, missing_kospi,
                   earliest_kospi_existing, fetched_map, kospi_map, rows,
                   file_before, assigned, failed_page, budget_hit>>

\* fetched_map = fetch_detail_trend_map(max_pages, HISTORICAL_START_DATE)
FetchDetail ==
    /\ pc = "fetch_detail"
    /\ \E srv \in DetailServers :
         LET r == fetch_detail_trend_map(srv, max_pages, HISTORICAL_START_DATE) IN
           /\ failed_page' = IF r.ended = "raise" THEN r.page ELSE 0
           /\ budget_hit' = IF r.ended = "range" THEN {"detail"} ELSE {}
           /\ IF r.raised
              THEN pc' = "fatal" /\ error' = "detail" /\ UNCHANGED fetched_map
              ELSE pc' = "fetch_kospi" /\ error' = "none" /\ fetched_map' = r.map
    /\ UNCHANGED <<app_vars, file, existing_map, earliest_existing, missing_kospi,
                   earliest_kospi_existing, needs_backfill, max_pages,
                   needs_kospi_backfill, max_pages_kospi, kospi_map, rows,
                   file_before, assigned>>

\* kospi_map = fetch_kospi_close_map(max_pages_kospi, HISTORICAL_START_DATE)
FetchKospi ==
    /\ pc = "fetch_kospi"
    /\ \E srv \in KospiServers :
         LET r == fetch_kospi_close_map(srv, max_pages_kospi, HISTORICAL_START_DATE) IN
           /\ failed_page' = IF failed_page # 0 THEN failed_page
                              ELSE IF r.ended = "raise" THEN r.page ELSE 0
           /\ budget_hit' = IF r.ended = "range" THEN budget_hit \cup {"kospi"}
                            ELSE budget_hit
           /\ IF r.raised
              THEN pc' = "fatal" /\ error' = "kospi" /\ UNCHANGED kospi_map
              ELSE pc' = "merge" /\ error' = "none" /\ kospi_map' = r.map
    /\ UNCHANGED <<app_vars, file, existing_map, earliest_existing, missing_kospi,
                   earliest_kospi_existing, needs_backfill, max_pages,
                   needs_kospi_backfill, max_pages_kospi, fetched_map, rows,
                   file_before, assigned>>

\* merged_map; raise RuntimeError if it is empty; rows
Merge ==
    /\ pc = "merge"
    /\ LET merged_map == merged_map_of(existing_map, fetched_map) IN
         IF merged_map = EmptyDict
         THEN pc' = "fatal" /\ error' = "empty" /\ UNCHANGED rows
         ELSE pc' = "assign" /\ error' = "none" /\ rows' = rows_of(merged_map)
    /\ UNCHANGED <<app_vars, file, existing_map, earliest_existing, missing_kospi,
                   earliest_kospi_existing, needs_backfill, max_pages,
                   needs_kospi_backfill, max_pages_kospi, fetched_map, kospi_map,
                   file_before, assigned, failed_page, budget_hit>>

\* the loop giving every row its kospiClose
AssignClose ==
    /\ pc = "assign"
    /\ pc' = "fill"
    /\ rows' = assign_closes(rows, kospi_map)
    /\ assigned' = rows'
    /\ UNCHANGED <<app_vars, file, error, existing_map, earliest_existing, missing_kospi,
                   earliest_kospi_existing, needs_backfill, max_pages,
                   needs_kospi_backfill, max_pages_kospi, fetched_map, kospi_map,
                   file_before, failed_page, budget_hit>>

\* the forward-fill loop
ForwardFill ==
    /\ pc = "fill"
    /\ pc' = "write"
    /\ rows' = forward_fill(rows)
    /\ UNCHANGED <<app_vars, file, error, existing_map, earliest_existing, missing_kospi,
                   earliest_kospi_existing, needs_backfill, max_pages,
                   needs_kospi_backfill, max_pages_kospi, fetched_map, kospi_map,
                   file_before, assigned, failed_page, budget_hit>>

\* out_path.write_text(json.dumps(payload, ...))
Write ==
    /\ pc = "write"
    /\ pc' = "done"
    /\ file' = JsonFile(payload_of(rows))
    /\ UNCHANGED <<app_vars, error, existing_map, earliest_existing, missing_kospi,
                   earliest_kospi_existing, needs_backfill, max_pages,
                   needs_kospi_backfill, max_pages_kospi, fetched_map, kospi_map,
                   rows, file_before, assigned, failed_page, budget_hit>>

\* The process has ended (normally or with the exception); the scheduler
\* starts main() again on the same file.
NextRun ==
    /\ pc \in {"done", "fatal"}
    /\ pc' = "start"
    /\ error' = "none"
    /\ UnsetLocals
    /\ file_before' = file
    /\ assigned' = <<>>
    /\ failed_page' = 0
    /\ budget_hit' = {}
    /\ UNCHANGED <<app_vars, file>>

InitApp ==
    /\ app_pc = "idle"
    /\ biz_dates = <<>>
    /\ future = EmptyDict
    /\ trend_data = EmptyDict

Init == InitPipeline /\ InitApp

Next ==
    \/ Load
    \/ Classify
    \/ FetchDetail
    \/ FetchKospi
    \/ Merge
    \/ AssignClose
    \/ ForwardFill
    \/ Write
    \/ NextRun

Spec == Init /\ [][Next]_vars

----------------------------------------------------------------------------
(* app.py: fetch_naver_data.  The price list is fetched, one fetch_trend    *)
(* task per business date is submitted to a pool of max_workers threads,    *)
(* and the main thread collects the futures as they complete.               *)

max_workers == 10
PriceSlice == 100          \* prices[:100]
MaxPrices == 3             \* rows the price endpoint returns

\* The k-th newest trading day the price endpoint lists.
TradedAt(k) == 20260301 - k

\* What one GET of the trend endpoint may do.
TrendOutcomes == {"data", "other_data", "empty", "non200", "timeout", "bad_json"}

\* fetch_trend(bdate): (bdate, res.json() if res.status_code == 200 else None),
\* and (bdate, None) after any exception.  A JSON body is held as the date it
\* is about and the number of entries in it.
fetch_trend(bdate, outcome) ==
    IF outcome = "data" THEN Some([bizdate |-> bdate, entries |-> 1])
    ELSE IF outcome = "other_data" THEN Some([bizdate |-> bdate, entries |-> 2])
    ELSE IF outcome = "empty" THEN Some([bizdate |-> bdate, entries |-> 0])
    ELSE None

\* Python truth of a task's result: None and an empty JSON body are false.
Truthy(result) == result # None /\ result[1].entries > 0

\* Mutant of collect: `if result is not None` for `if result`.
collect_not_none(td, bdate, result) ==
    IF result # None THEN DictSet(td, bdate, result[1]) ELSE td

\* if result: trend_data[bdate] = result
collect(td, bdate, result) ==
    IF Truthy(result) THEN DictSet(td, bdate, result[1]) ELSE td

\* biz_dates = [... for p in prices[:100]]
biz_dates_of(prices) ==
    [i \in 1..(IF Len(prices) < PriceSlice THEN Len(prices) ELSE PriceSlice) |-> prices[i]]

Running == {d \in DOMAIN future : future[d].state = "running"}

\* The price request fails, or answers otherwise than 200: return None.
PriceFails ==
    /\ app_pc = "idle"
    /\ app_pc' = "returned_none"
    /\ UNCHANGED <<pipeline_vars, biz_dates, future, trend_data>>

\* The price request answers; every date's task is submitted to the pool.
SubmitAll ==
    /\ app_pc = "idle"
    /\ \E n \in 0..MaxPrices :
         LET prices == [k \in 1..n |-> TradedAt(k)] IN
           /\ biz_dates' = biz_dates_of(prices)
           /\ future' = [d \in {prices[k] : k \in 1..Len(biz_dates_of(prices))} |->
                            [state |-> "pending", result |-> None]]
    /\ trend_data' = EmptyDict
    /\ app_pc' = "collecting"
    /\ UNCHANGED pipeline_vars

\* A free worker thread takes the oldest queued task.
StartTask ==
    /\ app_pc = "collecting"
    /\ Cardinality(Running) < max_workers
    /\ \E i \in 1..Len(biz_dates) :
         /\ future[biz_dates[i]].state = "pending"
         /\ \A j \in 1..(i - 1) : future[biz_dates[j]].state # "pending"
         /\ future' = [future EXCEPT ![biz_dates[i]].state = "running"]
    /\ UNCHANGED <<pipeline_vars, app_pc, biz_dates, trend_data>>

\* A running task's request ends one way or another and the task returns.
FinishTask ==
    /\ app_pc = "collecting"
    /\ \E d \in Running, outcome \in TrendOutcomes :
         future' = [future EXCEPT ![d] = [state |-> "done",
                                          result |-> fetch_trend(d, outcome)]]
    /\ UNCHANGED <<pipeline_vars, app_pc, biz_dates, trend_data>>

\* as_completed yields a finished future; the loop body handles its result.
Collect ==
    /\ app_pc = "collecting"
    /\ \E d \in DOMAIN future :
         /\ future[d].state = "done"
         /\ trend_data' = collect(trend_data, d, future[d].result)
         /\ future' = [future EXCEPT ![d].state = "collected"]
    /\ UNCHANGED <<pipeline_vars, app_pc, biz_dates>>

\* Every future was yielded: the pool shuts down and the dict is returned.
Return ==
    /\ app_pc = "collecting"
    /\ \A d \in DOMAIN future : future[d].state = "collected"
    /\ app_pc' = "returned"
    /\ UNCHANGED <<pipeline_vars, biz_dates, future, trend_data>>

\* The cached value expires and the function is called again.
CallAgain ==
    /\ app_pc \in {"returned", "returned_none"}
    /\ app_pc' = "idle"
    /\ biz_dates' = <<>>
    /\ future' = EmptyDict
    /\ trend_data' = EmptyDict
    /\ UNCHANGED pipeline_vars

NextApp ==
    \/ PriceFails
    \/ SubmitAll
    \/ StartTask
    \/ FinishTask
    \/ Collect
    \/ Return
    \/ CallAgain

\* The pipeline is not running: its variables stay as a run leaves them unset.
InitPipelineIdle ==
    /\ file = NoFile
    /\ pc = "start"
    /\ error = "none"
    /\ existing_map = EmptyDict
    /\ earliest_existing = None
    /\ missing_kospi = FALSE
    /\ earliest_kospi_existing = None
    /\ needs_backfill = FALSE
    /\ max_pages = 0
    /\ needs_kospi_backfill = FALSE
    /\ max_pages_kospi = 0
    /\ fetched_map = EmptyDict
    /\ kospi_map = EmptyDict
    /\ rows = <<>>
    /\ file_before = NoFile
    /\ assigned = <<>>
    /\ failed_page = 0
    /\ budget_hit = {}

InitIdle == InitPipelineIdle /\ InitApp

SpecApp == InitIdle /\ [][NextApp]_vars

----------------------------------------------------------------------------
(* Properties of a run of main() *)

\* The `data` array of the file (of a file that main() wrote).
OutData == file.doc.o.data.l
OutDates == [i \in 1..Len(OutData) |-> OutData[i].o.date.d]
OutRow(d) == (CHOOSE r \in {OutData[i] : i \in 1..Len(OutData)} : r.o.date.d = d).o
Kept(map) == {d \in DOMAIN map : d >= HISTORICAL_START_DATE}

\* C1: whenever a run has written the dataset, every date of the written
\* `data` array is at or after HISTORICAL_START_DATE and the dates are strictly
\* increasing (so no date appears twice).
C1_DatesFromStartStrictlyIncreasing ==
    pc = "done" =>
        /\ \A i \in 1..Len(OutDates) : OutDates[i] >= HISTORICAL_START_DATE
        /\ \A i \in 1..Len(OutDates) : \A j \in 1..Len(OutDates) :
               i < j => OutDates[i] < OutDates[j]

\* A run wrote three rows although the file it loaded was out of order and
\* held a row before the start date, and the fetch brought further rows.
C1_Witness ==
    /\ pc = "done"
    /\ \E d \in DOMAIN existing_map : d < HISTORICAL_START_DATE
    /\ fetched_map # EmptyDict
    /\ Len(OutData) >= 3

\* C2 (as claimed): after the close assignment, a record's close is null only
\* when the record is dated before the earliest date that has any close,
\* existing or fetched; every other record has the fetched close of its date,
\* or else the close its date had in the loaded dataset, also when the
\* record's flow fields came from the fetch.
C2_CloseDates ==
    {d \in Kept(existing_map) : existing_map[d].kospiClose # None} \cup DOMAIN kospi_map

C2_CloseAssignmentAsClaimed ==
    pc \in {"fill", "write", "done"} =>
        \A i \in 1..Len(assigned) :
            LET d == assigned[i].date IN
              IF C2_CloseDates # {} /\ d < MinOf(C2_CloseDates)
              THEN assigned[i].kospiClose = None
              ELSE assigned[i].kospiClose =
                     (IF d \in DOMAIN kospi_map THEN Some(kospi_map[d])
                      ELSE IF d \in DOMAIN existing_map THEN existing_map[d].kospiClose
                      ELSE None)

\* C3: in the written dataset, a date at or after the start date that is in
\* the loaded dataset and in the fetched flow map has the ten fetched flow
\* values, and a date of the loaded dataset that was not fetched keeps its ten
\* loaded flow values.
C3_FetchedFlowWins ==
    pc = "done" =>
        /\ \A d \in Kept(existing_map) \cap DOMAIN fetched_map : \A k \in FlowFieldSet :
               OutRow(d)[k] = JNum(fetched_map[d][k])
        /\ \A d \in Kept(existing_map) \ DOMAIN fetched_map : \A k \in FlowFieldSet :
               OutRow(d)[k] = JNum(existing_map[d][k])

\* A written dataset with a date whose loaded and fetched flows differ, and
\* a date that only the loaded dataset has.
C3_Witness ==
    /\ pc = "done"
    /\ \E d \in Kept(existing_map) \cap DOMAIN fetched_map : \E k \in FlowFieldSet :
           existing_map[d][k] # fetched_map[d][k]
    /\ Kept(existing_map) \ DOMAIN fetched_map # {}

\* C4: in the written dataset, in date order, a record whose close was null
\* after the assignment and that has an earlier record with a close carries
\* the close of the nearest such record; no record after a record with a close
\* is null; and a null record with no earlier close stays null.
C4_Known(i) == {j \in 1..(i - 1) : assigned[j].kospiClose # None}
C4_Nearest(i) == CHOOSE j \in C4_Known(i) : \A k \in C4_Known(i) : k <= j

C4_ForwardFill ==
    pc = "done" =>
        /\ Len(OutData) = Len(assigned)
        /\ \A i \in 1..Len(assigned) :
             /\ (assigned[i].kospiClose = None /\ C4_Known(i) # {})
                  => OutData[i].o.kospiClose = JNum(assigned[C4_Nearest(i)].kospiClose[1])
             /\ (assigned[i].kospiClose = None /\ C4_Known(i) = {})
                  => OutData[i].o.kospiClose = JNull
             /\ C4_Known(i) # {} => OutData[i].o.kospiClose # JNull

\* A written dataset where two different closes are followed by a record
\* that had none, and one where a leading record had none.
C4_Witness ==
    /\ pc = "done"
    /\ \E i \in 1..Len(assigned) :
         /\ assigned[i].kospiClose = None
         /\ Cardinality({assigned[j].kospiClose : j \in C4_Known(i)}) >= 2
         /\ C4_Nearest(i) = i - 1

\* C5: once the run is classified, it is a bootstrap (page budget
\* BOOTSTRAP_MAX_PAGES) when the loaded dataset has no earliest date or its
\* earliest date is more than 7 days after the start date, and incremental
\* (page budget RECENT_REFRESH_PAGES) when the earliest date is within 7 days
\* of the start date, whatever the close prices of the dataset are.
C5_Classified == pc \in {"fetch_detail", "fetch_kospi", "merge", "assign", "fill",
                         "write", "done"}

C5_Classification ==
    C5_Classified =>
        LET gap == DaysBetween(earliest_existing[1], HISTORICAL_START_DATE) IN
          /\ earliest_existing = None
               => needs_backfill /\ max_pages = BOOTSTRAP_MAX_PAGES
          /\ (earliest_existing # None /\ gap > 7)
               => needs_backfill /\ max_pages = BOOTSTRAP_MAX_PAGES
          /\ (earliest_existing # None /\ gap >= 0 - 7 /\ gap <= 7)
               => ~needs_backfill /\ max_pages = RECENT_REFRESH_PAGES

\* A dataset starting exactly 7 days after the start date with a close
\* missing: the flow series is incremental while the close series is not, and
\* the flow fetch stopped because it had read RECENT_REFRESH_PAGES pages.
C5_Witness ==
    /\ pc = "fetch_kospi"
    /\ earliest_existing = Some(20050110)
    /\ ~needs_backfill
    /\ max_pages = RECENT_REFRESH_PAGES
    /\ budget_hit = {"detail"}
    /\ missing_kospi
    /\ max_pages_kospi = BOOTSTRAP_MAX_PAGES

\* C6: a run in which a page request failed, or that ended with an exception,
\* leaves the file as it found it; and a written dataset is never empty.
C6_FatalRunWritesNothing ==
    /\ (failed_page # 0 \/ error # "none" \/ pc = "fatal") => file = file_before
    /\ pc = "done" => Len(OutData) > 0

\* A run over an existing dataset that had fetched flow rows and then ended
\* with a failed page of the close series.
C6_Witness ==
    /\ pc = "fatal"
    /\ error = "kospi"
    /\ file.exists
    /\ existing_map # EmptyDict
    /\ fetched_map # EmptyDict

\* A run that ended because the merged record set was empty.
C6_WitnessEmpty == pc = "fatal" /\ error = "empty" /\ file.exists

C8_WellFormedRow(r) ==
    /\ r.t = "obj"
    /\ \A k \in FlowFieldSet : Get(r.o, k, JNum(0)).t = "num"

C8_WellFormed(f) ==
    /\ f.exists /\ f.json /\ f.doc.t = "obj"
    /\ Get(f.doc.o, "data", JList(<<>>)).t = "list"
    /\ LET data == Get(f.doc.o, "data", JList(<<>>)).l
       IN  \A i \in 1..Len(data) : C8_WellFormedRow(data[i])

C8_LoadNeverRaises ==
    /\ error # "load"
    /\ (C5_Classified /\ ~C8_WellFormed(file_before))
          => (existing_map = EmptyDict /\ earliest_existing = None /\ needs_backfill)

\* C10 (as claimed): every date at or after the start date that had a close
\* in the dataset a run loaded has a close in the dataset the run wrote.
C10_CloseCoverageKept ==
    pc = "done" =>
        \A d \in Kept(existing_map) :
            existing_map[d].kospiClose # None => OutRow(d).kospiClose # JNull

----------------------------------------------------------------------------
(* Properties of fetch_naver_data *)

\* C9: when fetch_naver_data returns its dict, whatever the order in which the
\* tasks ran and completed, `trends` holds exactly the dates whose task
\* returned a non-empty body, each with the body its own task returned; a
\* task that failed or returned nothing only leaves its date out, and the call
\* returns None only when the price request failed, before any task existed.
C9_TrendsIndependentOfOrder ==
    /\ app_pc = "returned" =>
         /\ DOMAIN trend_data = {d \in DOMAIN future : Truthy(future[d].result)}
         /\ \A d \in DOMAIN trend_data :
              trend_data[d] = future[d].result[1] /\ trend_data[d].bizdate = d
         /\ DOMAIN future = {biz_dates[i] : i \in 1..Len(biz_dates)}
    /\ app_pc = "returned_none" => future = EmptyDict

\* A call returned after one task failed, one returned an empty body and one
\* returned data.
C9_Witness ==
    /\ app_pc = "returned"
    /\ \E d \in DOMAIN future : future[d].result = None
    /\ \E d \in DOMAIN future : future[d].result # None /\ ~Truthy(future[d].result)
    /\ \E d \in DOMAIN future : Truthy(future[d].result)

====
